---- MODULE Spec2Model ----
(***************************************************************************)
(* Model of the web_responders package: the response builder               *)
(* (CreateResponse and its helpers) and the input error collector          *)
(* (RespondWithInputErrors, addInputErrors).                                *)
(*                                                                         *)
(* Go strings are sequences of ASCII codes, so that strings.ToLower,       *)
(* strings.HasPrefix, unicode.IsUpper and slicing are computed and not     *)
(* assumed.  A Go value is a record with a "kind" (its reflect.Kind), the  *)
(* set "caps" of the interfaces its dynamic type implements, and the data  *)
(* of its kind.  A panic of the Go runtime is the value Panic.             *)
(***************************************************************************)
EXTENDS Integers, Sequences, FiniteSets, TLC

VARIABLES
    pc,            \* "call", "rendered": CreateResponse before and after;
                   \* "input", "walk", "walked", "reported", "responded", "error":
                   \* RespondWithInputErrors before it, in and after addInputErrors,
                   \* after the loop over the parameters left, and returned
    data,          \* CreateResponse: the data argument
    optionList,    \* CreateResponse: the variadic optionList (0, 1 or 2 entries)
    result,        \* CreateResponse: the returned value, or Panic
    dataType,      \* RespondWithInputErrors: reflect.TypeOf(data), a sequence of fields
    frames,        \* addInputErrors: the call stack, one [type, i] per active call
    params,        \* the objx.Map of input parameters (entries are deleted as consumed)
    notifications, \* the MessageMap's input messages, by input name
    log            \* the checks run so far, in order: [name, check] (observation only)

vars == <<pc, data, optionList, result, dataType, frames, params, notifications, log>>

----------------------------------------------------------------------------
(* Strings.                                                                *)

s_Id    == <<73, 100>>                      \* "Id"
s_id    == <<105, 100>>                     \* "id"
s_Name  == <<78, 97, 109, 101>>             \* "Name"
s_name  == <<110, 97, 109, 101>>            \* "name"
s_Age   == <<65, 103, 101>>                 \* "Age"
s_age   == <<97, 103, 101>>                 \* "age"
s_X     == <<88>>                           \* "X"
s_x     == <<120>>                          \* "x"
s_Y     == <<89>>                           \* "Y"
s_y     == <<121>>                          \* "y"
s_dash  == <<45>>                           \* "-"
s_star  == <<42>>                           \* "*"
s_empty == <<>>                             \* ""
s_type  == <<116, 121, 112, 101>>           \* "type"
s_full  == <<102, 117, 108, 108>>           \* "full"
s_Valid == <<86, 97, 108, 105, 100>>        \* "Valid"
s_Int   == <<73, 110, 116>>                 \* "Int"
s_int   == <<105, 110, 116>>                \* "int"
s_Item  == <<73, 116, 101, 109>>            \* "Item"
s_Base  == <<66, 97, 115, 101>>             \* "Base"
s_base  == <<98, 97, 115, 101>>             \* "base"
s_More  == <<77, 111, 114, 101>>            \* "More"

\* const SqlNullablePrefix = "Null"
SqlNullablePrefix == <<78, 117, 108, 108>>

\* strings.ToLower, on ASCII
ToLower(s) == [i \in 1..Len(s) |-> IF s[i] >= 65 /\ s[i] <= 90 THEN s[i] + 32 ELSE s[i]]

\* unicode.IsUpper(rune(s[0])), on ASCII
IsUpperInitial(s) == Len(s) > 0 /\ s[1] >= 65 /\ s[1] <= 90

\* strings.HasPrefix
HasPrefix(s, prefix) == Len(s) >= Len(prefix) /\ SubSeq(s, 1, Len(prefix)) = prefix

----------------------------------------------------------------------------
(* Values, options and responses.                                          *)

Panic == [kind |-> "panic"]
Nil   == [kind |-> "nil", caps |-> {}]

IsPanic(r) == r.kind = "panic"

EmptyMap == [k \in {} |-> Nil]

\* objx.Map options: nil, a map[string]interface{} (or objx.Map), or a plain string entry
NilOptions  == [kind |-> "nil"]
Msi(m)      == [kind |-> "msi", m |-> m]
StrOpt(s)   == [kind |-> "str", v |-> s]

\* objx.Map.Has: the map is not nil and holds a non-nil entry under the key
Has(options, key) ==
    /\ options.kind = "msi"
    /\ key \in DOMAIN options.m
    /\ options.m[key].kind # "nil"

\* objx.Map.Get: a *objx.Value wrapping the entry (a nil entry when absent)
Get(options, key) ==
    IF options.kind = "msi" /\ key \in DOMAIN options.m THEN options.m[key] ELSE Nil

\* objx.Value.IsMSI / IsObjxMap
IsMSI(optionValue) == optionValue.kind = "msi"

\* options.Get("type").Str() != "full", negated
IsFull(options) == Get(options, s_type) = StrOpt(s_full)

----------------------------------------------------------------------------
(* The response builder.                                                   *)

\* A struct field: reflect.StructField (Name, Anonymous, Tag) with the field's value.
\* The name of an embedded field is the name of its type.
Field(name, response, db, value) ==
    [name |-> name, anonymous |-> FALSE, response |-> response, db |-> db, value |-> value]
Embedded(value) ==
    [name |-> value.typeName, anonymous |-> TRUE, response |-> s_empty, db |-> s_empty,
     value |-> value]

Struct(typeName, fields, caps) ==
    [kind |-> "struct", typeName |-> typeName, fields |-> fields, caps |-> caps]
SliceV(elems)  == [kind |-> "slice", elems |-> elems, caps |-> {}]
MapV(entries)  == [kind |-> "map", m |-> entries, caps |-> {}]
IntV(n)        == [kind |-> "int", v |-> n, caps |-> {}]
BoolV(b)       == [kind |-> "bool", v |-> IF b THEN 1 ELSE 0, caps |-> {}]
StringV(s)     == [kind |-> "string", v |-> s, caps |-> {}]

\* The constructor made by RadioboxApiCodec.CreateConstructor wraps the object in
\* an envelope; a constructor that was not supplied is a nil func, and calling it panics.
callConstructor(constructor, object, original) ==
    IF constructor = "nil" THEN Panic
    ELSE [kind |-> "envelope", response |-> object, original |-> original]

ResponseTagMutant(field) ==
    IF field.name # s_Id /\ field.db # s_empty /\ field.db # s_dash THEN field.db
    ELSE IF field.response # s_empty THEN field.response
    ELSE ToLower(field.name)

ResponseTag(field) ==
    IF field.response # s_empty THEN field.response
    ELSE IF field.name # s_Id /\ field.db # s_empty /\ field.db # s_dash THEN field.db
    ELSE ToLower(field.name)

\* reflect.Value.FieldByName over the struct's own fields: the field, or Nil when
\* there is none (IsValid() is false).  s_empty names no field.
FieldByName(value, name) ==
    LET found == {i \in 1..Len(value.fields) : value.fields[i].name = name}
    IN IF found = {} THEN Nil
       ELSE value.fields[CHOOSE i \in found : \A j \in found : i <= j]

\* createNullableDbResponse returns (value, error): err is TRUE for the error
\* "No Nullable DB value found"; v is Panic when the function panics.
createNullableDbResponse(value) ==
    IF HasPrefix(value.typeName, SqlNullablePrefix)
    THEN LET fieldName == SubSeq(value.typeName, Len(SqlNullablePrefix) + 1, Len(value.typeName))
             val       == FieldByName(value, fieldName)
             isNotNil  == FieldByName(value, s_Valid)
         IN IF val # Nil /\ isNotNil # Nil
            THEN \* isNotNil.Interface().(bool) panics on another type
                 IF isNotNil.value.kind # "bool" THEN [err |-> FALSE, v |-> Panic]
                 ELSE IF isNotNil.value.v = 1
                 THEN \* val.Interface() panics on an unexported field
                      IF IsUpperInitial(val.name) THEN [err |-> FALSE, v |-> val.value]
                      ELSE [err |-> FALSE, v |-> Panic]
                 ELSE [err |-> FALSE, v |-> Nil]
            ELSE [err |-> TRUE, v |-> Nil]
    ELSE [err |-> TRUE, v |-> Nil]

\* Lines 205-220: the options of a named field, or Panic
structSubOptions(options, name) ==
    IF options.kind # "nil" /\ (Has(options, name) \/ Has(options, s_star))
    THEN LET subOptionsValue == IF Has(options, name) THEN Get(options, name)
                                ELSE Get(options, s_star)
         IN IF IsMSI(subOptionsValue) THEN subOptionsValue
            ELSE Panic   \* panic("Don't know what to do with option")
    ELSE NilOptions

\* Lines 127-143: the options of a mapping key, or Panic.  With neither the key
\* nor "*" present elementOptionsValue stays a nil *objx.Value, and IsMSI
\* dereferences it.
mapElementOptions(options, keyStr) ==
    IF options.kind # "nil"
    THEN IF Has(options, keyStr) \/ Has(options, s_star)
         THEN LET elementOptionsValue == IF Has(options, keyStr) THEN Get(options, keyStr)
                                         ELSE Get(options, s_star)
              IN IF IsMSI(elementOptionsValue) THEN elementOptionsValue
                 ELSE Panic   \* panic("Don't know what to do with option")
         ELSE Panic           \* nil pointer dereference in elementOptionsValue.IsMSI()
    ELSE NilOptions

\* Lines 193-198: the keys of an embedded response that the response lacks
mergeEmbeddedMutant(response, embeddedResponse) ==
    [key \in DOMAIN response \cup DOMAIN embeddedResponse |->
        IF key \in DOMAIN embeddedResponse THEN embeddedResponse[key] ELSE response[key]]

mergeEmbedded(response, embeddedResponse) ==
    [key \in DOMAIN response \cup DOMAIN embeddedResponse |->
        IF key \in DOMAIN response THEN response[key] ELSE embeddedResponse[key]]

setKeyMutant(response, name, v) ==
    IF name \in DOMAIN response THEN response
    ELSE [key \in DOMAIN response \cup {name} |-> IF key = name THEN v ELSE response[key]]

\* Line 221: response[name] = v
setKey(response, name, v) ==
    [key \in DOMAIN response \cup {name} |-> IF key = name THEN v ELSE response[key]]

\* Lines 232-239: the type switch of createResponseValue, "none" for its default
capabilityMutant(value) ==
    IF "Stringer" \in value.caps THEN "Stringer"
    ELSE IF "ResponseValueCreator" \in value.caps THEN "ResponseValueCreator"
    ELSE IF "error" \in value.caps THEN "error"
    ELSE "none"

capability(value) ==
    IF "ResponseValueCreator" \in value.caps THEN "ResponseValueCreator"
    ELSE IF "Stringer" \in value.caps THEN "Stringer"
    ELSE IF "error" \in value.caps THEN "error"
    ELSE "none"

\* Line 82: whether createResponse hands the rendered sequence to the constructor
wrapsSlice(isSubResponse, options, constructor) ==
    options.kind # "nil" /\ isSubResponse

RECURSIVE CreateResponse(_, _)
RECURSIVE createResponse(_, _, _, _)
RECURSIVE createStructFields(_, _, _, _, _)
RECURSIVE createSliceElements(_, _, _, _, _)
RECURSIVE createMapEntries(_, _, _, _, _)
RECURSIVE createResponseValue(_, _, _)

\* Lines 230-246
createResponseValue(value, options, constructor) ==
    IF ~IsFull(options)
    THEN CASE capability(value) = "ResponseValueCreator" ->
                [kind |-> "ResponseValue", of |-> value, options |-> options]
           [] capability(value) = "Stringer" -> [kind |-> "String", of |-> value]
           [] capability(value) = "error" -> [kind |-> "Error", of |-> value]
           [] OTHER -> createResponse(value, TRUE, options, constructor)
    ELSE createResponse(value, TRUE, options, constructor)

\* Lines 187-224: the field loop from field i on, with the response built so far
createStructFields(value, i, response, options, constructor) ==
    IF i > Len(value.fields) THEN [kind |-> "objx", m |-> response]
    ELSE LET fieldType == value.fields[i]
         IN IF fieldType.anonymous
            THEN \* fieldValue.Interface() panics on an unexported embedded field;
                 \* .(objx.Map) panics on anything but the objx.Map of a struct
                 LET embeddedResponse ==
                         IF ~IsUpperInitial(fieldType.name) THEN Panic
                         ELSE CreateResponse(fieldType.value, <<options, constructor>>)
                 IN IF embeddedResponse.kind # "objx" THEN Panic
                    ELSE createStructFields(value, i + 1,
                             mergeEmbedded(response, embeddedResponse.m), options, constructor)
            ELSE IF IsUpperInitial(fieldType.name)
            THEN LET name == ResponseTag(fieldType)
                 IN IF name = s_dash
                    THEN createStructFields(value, i + 1, response, options, constructor)
                    ELSE LET subOptions == structSubOptions(options, name)
                             v == IF IsPanic(subOptions) THEN Panic
                                  ELSE createResponseValue(fieldType.value, subOptions, constructor)
                         IN IF IsPanic(v) THEN Panic
                            ELSE createStructFields(value, i + 1, setKey(response, name, v),
                                                    options, constructor)
            ELSE createStructFields(value, i + 1, response, options, constructor)

\* Lines 176-226
createStructResponse(value, options, constructor) ==
    LET nullable == createNullableDbResponse(value)
    IN IF ~nullable.err THEN nullable.v
       ELSE createStructFields(value, 1, EmptyMap, options, constructor)

\* Lines 152-159: the element loop from element i on
createSliceElements(value, i, response, options, constructor) ==
    IF i > Len(value.elems) THEN [kind |-> "slice", elems |-> response]
    ELSE LET v == createResponseValue(value.elems[i], options, constructor)
         IN IF IsPanic(v) THEN Panic
            ELSE createSliceElements(value, i + 1, Append(response, v), options, constructor)

createSliceResponse(value, options, constructor) ==
    createSliceElements(value, 1, <<>>, options, constructor)

\* Lines 124-148: the key loop over the keys not yet rendered
createMapEntries(value, keys, response, options, constructor) ==
    IF keys = {} THEN [kind |-> "map", m |-> response]
    ELSE LET key == CHOOSE k \in keys : TRUE
             elementOptions == mapElementOptions(options, key)
             itemResponse == IF IsPanic(elementOptions) THEN Panic
                             ELSE createResponseValue(value.m[key], elementOptions, constructor)
         IN IF IsPanic(itemResponse) THEN Panic
            ELSE createMapEntries(value, keys \ {key}, setKey(response, key, itemResponse),
                                  options, constructor)

createMapResponse(value, options, constructor) ==
    createMapEntries(value, DOMAIN value.m, EmptyMap, options, constructor)

\* Lines 61-91.  LazyLoad runs first on a LazyLoader; what it loads is the
\* value's own business, and the value modelled is the value after it.
createResponse(d, isSubResponse, options, constructor) ==
    LET responseData == IF "ResponseObjectCreator" \in d.caps THEN d.responseObject ELSE d
        value == IF responseData.kind = "ptr" THEN responseData.elem ELSE responseData
    IN CASE value.kind = "struct" -> createStructResponse(value, options, constructor)
         [] value.kind = "slice" ->
                LET rendered == createSliceResponse(value, options, constructor)
                IN IF IsPanic(rendered) THEN Panic
                   ELSE IF wrapsSlice(isSubResponse, options, constructor)
                   THEN callConstructor(constructor, rendered, value)
                   ELSE rendered
         [] value.kind = "map" -> createMapResponse(value, options, constructor)
         [] OTHER -> responseData

\* Lines 41-59
CreateResponse(d, optionLst) ==
    IF "error" \in d.caps THEN [kind |-> "Error", of |-> d]
    ELSE LET options == IF Len(optionLst) \in {1, 2} THEN optionLst[1] ELSE NilOptions
             constructor == IF Len(optionLst) = 2 THEN optionLst[2] ELSE "nil"
         IN createResponse(d, FALSE, options, constructor)

----------------------------------------------------------------------------
(* The calls of CreateResponse that are explored.                          *)

\* The most fields a generated struct declares
MaxFields == 2

PtrV(elem)  == [kind |-> "ptr", elem |-> elem, caps |-> {}]
InvalidV    == [kind |-> "invalid", caps |-> {}]      \* the zero reflect.Value

\* Sequences over S of length at most n whose entries have distinct names
\* (a Go struct declares no field name twice)
DistinctNames(fs) == \A i, j \in 1..Len(fs) : fs[i].name = fs[j].name => i = j
FieldLists(S, n) ==
    {fs \in UNION {[1..k -> S] : k \in 0..n} : DistinctNames(fs)}

\* A value that implements the interfaces in caps; structurally a struct
Capable(caps) == Struct(s_Item, <<Field(s_Name, s_empty, s_empty, IntV(1))>>, caps)
Capabilities  == SUBSET {"ResponseValueCreator", "Stringer", "error"}

\* Field i of a generated struct holds IntV(i), which tells the fields apart
Numbered(shapes) ==
    [i \in 1..Len(shapes) |->
        IF shapes[i].anonymous THEN shapes[i] ELSE [shapes[i] EXCEPT !.value = IntV(i)]]

\* Tagged fields: every combination of name, response tag and db tag
TagShapes ==
    {Field(n, r, d, IntV(0)) : n \in {s_Id, s_Name, s_Age, s_x},
                               r \in {s_empty, s_dash, s_id},
                               d \in {s_empty, s_dash, s_name}}
TagStructs == {Struct(s_Base, Numbered(fs), {}) : fs \in FieldLists(TagShapes, MaxFields)}

\* Embedded structs, and the named fields declared beside them
BaseStruct   == Struct(s_Base, <<Field(s_X, s_empty, s_empty, IntV(10))>>, {})
MoreStruct   == Struct(s_More, <<Field(s_X, s_empty, s_empty, IntV(20)),
                                 Field(s_Y, s_empty, s_empty, IntV(21))>>, {})
NestedStruct == Struct(s_Item, <<Embedded(BaseStruct),
                                 Field(s_Y, s_empty, s_empty, IntV(31))>>, {})
HiddenStruct == Struct(s_base, <<Field(s_X, s_empty, s_empty, IntV(40))>>, {})
ErrorStruct  == Struct(s_Valid, <<Field(s_Y, s_empty, s_empty, IntV(50))>>, {"error"})
EmbedShapes ==
    {Embedded(e) : e \in {BaseStruct, MoreStruct, NestedStruct, HiddenStruct, ErrorStruct}}
    \cup {Field(s_X, s_empty, s_empty, IntV(0)), Field(s_Name, s_x, s_empty, IntV(0)),
          Field(s_Y, s_empty, s_empty, IntV(0)), Field(s_Age, s_empty, s_y, IntV(0))}
EmbedStructs ==
    {Struct(s_Int, Numbered(fs), {}) : fs \in FieldLists(EmbedShapes, MaxFields)}

\* Nullable wrapper shapes and their near misses
NullFields ==
    {Field(s_Int, s_empty, s_empty, IntV(7)), Field(s_int, s_empty, s_empty, IntV(7)),
     Field(s_Valid, s_empty, s_empty, BoolV(TRUE)), Field(s_Valid, s_empty, s_empty, BoolV(FALSE)),
     Field(s_Valid, s_empty, s_empty, IntV(1)), Field(s_Valid, s_empty, s_empty, StringV(s_full)),
     Field(s_Name, s_empty, s_empty, IntV(3))}
NullTypeNames ==
    {SqlNullablePrefix \o s_Int, SqlNullablePrefix \o s_int, SqlNullablePrefix,
     SqlNullablePrefix \o s_Valid, s_Int, ToLower(SqlNullablePrefix) \o s_Int}
NullStructs ==
    {Struct(t, fs, {}) : t \in NullTypeNames, fs \in FieldLists(NullFields, MaxFields)}

\* Options trees
FullNode == Msi([k \in {s_type} |-> StrOpt(s_full)])
EmptyNode == Msi(EmptyMap)
Under(keys, node) == Msi([k \in keys |-> node])
Under2(k1, n1, k2, n2) == Msi([k \in {k1, k2} |-> IF k = k1 THEN n1 ELSE n2])
OptionTrees ==
    {NilOptions, EmptyNode, FullNode,
     Under({s_x}, EmptyNode), Under({s_x}, FullNode),
     Under({s_star}, EmptyNode), Under({s_star}, FullNode),
     Under({s_y}, FullNode), Under({s_y}, EmptyNode),
     Under2(s_x, EmptyNode, s_star, FullNode), Under2(s_x, FullNode, s_star, EmptyNode),
     Under({s_x}, StrOpt(s_full)), Under({s_star}, StrOpt(s_full)),
     Under({s_x}, Under({s_star}, FullNode))}

\* Children rendered under options: as a struct field, a mapping value, an element
Children == {Capable(c) : c \in Capabilities}
               \cup {IntV(5), SliceV(<<IntV(1), IntV(2)>>), SliceV(<<>>),
                     SliceV(<<Capable({}), Capable({"Stringer"})>>)}
Containers(child) ==
    {Struct(s_Base, <<Field(s_X, s_empty, s_empty, child)>>, {}),
     Struct(s_Base, <<Field(s_X, s_empty, s_empty, child),
                      Field(s_Y, s_empty, s_empty, Capable({"Stringer"}))>>, {}),
     Struct(s_Base, <<Field(s_Name, s_x, s_empty, child)>>, {}),
     MapV([k \in {s_x} |-> child]),
     MapV([k \in {s_x, s_y} |-> IF k = s_x THEN child ELSE Capable({"Stringer"})]),
     SliceV(<<child>>),
     SliceV(<<child, IntV(9)>>),
     child}
ContainerValues == UNION {Containers(c) : c \in Children}

\* Pointers and response-object substitution
IndirectValues ==
    {PtrV(BaseStruct), PtrV(InvalidV), Nil,
     [Capable({}) EXCEPT !.caps = {"ResponseObjectCreator"}] @@ [responseObject |-> MoreStruct],
     [Capable({"LazyLoader"}) EXCEPT !.fields = <<>>]}

\* The variadic optionList: nothing, the options, or the options and a constructor
OptionLists(trees) ==
    {<<>>} \cup {<<o>> : o \in trees} \cup {<<o, "codec">> : o \in trees}

CreateResponseCalls ==
    [data : TagStructs \cup EmbedStructs \cup NullStructs \cup IndirectValues,
     optionList : OptionLists({NilOptions, EmptyNode})]
    \cup [data : ContainerValues, optionList : OptionLists(OptionTrees)]

----------------------------------------------------------------------------
(* The input error collector.                                              *)

NoInput   == "No input for required field"
NoTarget  == "No target field found for this input"
WrongType == "Input is of the wrong type and cannot be converted"

\* A field of the target type: the input name and args that
\* web_request_readers.NameAndArgs gives, and the field's type.  A type is
\* [kind, caps, fields]: caps are the interfaces that the type's zero value
\* (for a pointer type, a pointer to a fresh value) implements.
TypeField(name, args, type) == [name |-> name, anonymous |-> FALSE, args |-> args, type |-> type]
TypeEmbedded(type)          == [name |-> s_empty, anonymous |-> TRUE, args |-> <<>>, type |-> type]
PlainType(kind)             == [kind |-> kind, caps |-> {}, fields |-> <<>>]
CapableType(kind, caps)     == [kind |-> kind, caps |-> caps, fields |-> <<>>]
StructType(fields)          == [kind |-> "struct", caps |-> {}, fields |-> fields]

\* Lines 285-290
isOptional(args) == \E k \in 1..Len(args) : args[k] = "optional"

\* reflect.Type.ConvertibleTo, for the kinds of the raw values and of the fields:
\* a type converts to itself, numeric types to each other, an integer to a string
ConvertibleTo(from, to) ==
    \/ from = to
    \/ from \in {"int", "float64"} /\ to \in {"int", "float64"}
    \/ from = "int" /\ to = "string"

\* ValidateInput and Receive are the field type's own: here both refuse the
\* raw values of kind "float64" and accept the others
Refuses(value) == value.kind = "float64"

checkForMutant(fieldType) ==
    IF "RequestValueReceiver" \in fieldType.caps THEN "Receive"
    ELSE IF "InputValidator" \in fieldType.caps THEN "ValidateInput"
    ELSE "ConvertibleTo"

\* Lines 318-330: the check that is run for a field with an input
checkFor(fieldType) ==
    IF "InputValidator" \in fieldType.caps THEN "ValidateInput"
    ELSE IF "RequestValueReceiver" \in fieldType.caps THEN "Receive"
    ELSE "ConvertibleTo"

\* notifications.SetInputMessage
SetInputMessage(messages, name, message) ==
    [k \in DOMAIN messages \cup {name} |-> IF k = name THEN message ELSE messages[k]]

deleteMutant(m, name) == m

\* Line 303: delete(params, name)
delete(m, name) == [k \in DOMAIN m \ {name} |-> m[k]]

\* Lines 318-332: the notifications after the check of a field with an input
checked(messages, name, fieldType, value) ==
    CASE checkFor(fieldType) = "ValidateInput" ->
            IF Refuses(value) THEN SetInputMessage(messages, name, "ValidateInput: refused")
            ELSE messages
      [] checkFor(fieldType) = "Receive" ->
            IF Refuses(value) THEN SetInputMessage(messages, name, "Receive: refused")
            ELSE messages
      [] OTHER ->
            IF ~ConvertibleTo(value.kind, fieldType.kind)
            THEN SetInputMessage(messages, name, WrongType)
            ELSE messages

noInputMutant(messages, name, args) == SetInputMessage(messages, name, NoInput)

\* Lines 294-296: the notifications after a field without an input
noInput(messages, name, args) ==
    IF ~isOptional(args) THEN SetInputMessage(messages, name, NoInput) ELSE messages

top == frames[Len(frames)]
field == top.type[top.i]

\* continue: the loop of the running addInputErrors moves to its next field
continue(stack) == [stack EXCEPT ![Len(stack)].i = @ + 1]

\* Lines 260-265: ParseParams fails and its error is returned, or the walk starts
RespondWithInputErrors ==
    /\ pc = "input"
    /\ \/ pc' = "error" /\ UNCHANGED frames
       \/ pc' = "walk" /\ frames' = <<[type |-> dataType, i |-> 1]>>
    /\ UNCHANGED <<data, optionList, result, dataType, params, notifications, log>>

\* Lines 278-281: an embedded type is walked against the same parameters
WalkEmbedded ==
    /\ pc = "walk" /\ top.i <= Len(top.type) /\ field.anonymous
    /\ frames' = Append(continue(frames), [type |-> field.type.fields, i |-> 1])
    /\ UNCHANGED <<pc, data, optionList, result, dataType, params, notifications, log>>

\* Lines 292-298: a field without an input
FieldWithoutInput ==
    /\ pc = "walk" /\ top.i <= Len(top.type) /\ ~field.anonymous
    /\ field.name \notin DOMAIN params
    /\ notifications' = noInput(notifications, field.name, field.args)
    /\ frames' = continue(frames)
    /\ log' = Append(log, [name |-> field.name, check |-> "none"])
    /\ UNCHANGED <<pc, data, optionList, result, dataType, params>>

\* Lines 303-332: a field with an input: the entry is consumed and checked
FieldWithInput ==
    /\ pc = "walk" /\ top.i <= Len(top.type) /\ ~field.anonymous
    /\ field.name \in DOMAIN params
    /\ params' = delete(params, field.name)
    /\ notifications' = checked(notifications, field.name, field.type, params[field.name])
    /\ frames' = continue(frames)
    /\ log' = Append(log, [name |-> field.name, check |-> checkFor(field.type)])
    /\ UNCHANGED <<pc, data, optionList, result, dataType>>

\* Line 276: the loop ends and addInputErrors returns, to the walk of the
\* enclosing type or to RespondWithInputErrors
WalkReturns ==
    /\ pc = "walk" /\ top.i > Len(top.type)
    /\ frames' = SubSeq(frames, 1, Len(frames) - 1)
    /\ pc' = IF Len(frames) = 1 THEN "walked" ELSE "walk"
    /\ UNCHANGED <<data, optionList, result, dataType, params, notifications, log>>

\* Lines 267-269: every parameter left has no target field
reportLeft(messages, left) ==
    [k \in DOMAIN messages \cup DOMAIN left |-> IF k \in DOMAIN left THEN NoTarget ELSE messages[k]]

ReportParamsLeft ==
    /\ pc = "walked"
    /\ notifications' = reportLeft(notifications, params)
    /\ pc' = "reported"
    /\ UNCHANGED <<data, optionList, result, dataType, frames, params, log>>

\* Lines 270, 343-383: Respond returns the error of ParseParams, or writes the
\* notifications as the response
Respond ==
    /\ pc = "reported"
    /\ \/ pc' = "error"
       \/ pc' = "responded"
    /\ UNCHANGED <<data, optionList, result, dataType, frames, params, notifications, log>>

\* A call of CreateResponse
CallCreateResponse ==
    /\ pc = "call"
    /\ result' = CreateResponse(data, optionList)
    /\ pc' = "rendered"
    /\ UNCHANGED <<data, optionList, dataType, frames, params, notifications, log>>

----------------------------------------------------------------------------
(* The target types and parameters that are explored.                      *)

\* The most fields a generated target type declares
MaxTargetFields == 2

FieldTypes ==
    {PlainType("string"), PlainType("int"),
     CapableType("struct", {"InputValidator"}),
     CapableType("ptr", {"RequestValueReceiver"}),
     CapableType("ptr", {"InputValidator", "RequestValueReceiver"})}
EmbeddedTypes ==
    {StructType(<<TypeField(s_x, <<>>, PlainType("string")),
                  TypeField(s_age, <<"optional">>, PlainType("int"))>>)}
TargetFields ==
    {TypeField(n, a, t) : n \in {s_name, s_age}, a \in {<<>>, <<"optional">>}, t \in FieldTypes}
    \cup {TypeEmbedded(t) : t \in EmbeddedTypes}
TargetTypes == UNION {[1..k -> TargetFields] : k \in 0..MaxTargetFields}

Raw(kind) == [kind |-> kind]
ParamMaps ==
    {[k \in keys |-> IF k = s_name THEN first ELSE Raw("string")] :
        keys \in SUBSET {s_name, s_age, s_x, s_Y}, first \in {Raw("string"), Raw("float64"), Raw("int")}}

Init ==
    /\ \/ /\ pc = "call"
          /\ \E c \in CreateResponseCalls : data = c.data /\ optionList = c.optionList
          /\ dataType = <<>> /\ params = EmptyMap
       \/ /\ pc = "input"
          /\ data = Nil /\ optionList = <<>>
          /\ dataType \in TargetTypes
          /\ params \in ParamMaps
    /\ result = Nil
    /\ frames = <<>>
    /\ notifications = EmptyMap
    /\ log = <<>>

Next ==
    \/ CallCreateResponse
    \/ RespondWithInputErrors
    \/ WalkEmbedded
    \/ FieldWithoutInput
    \/ FieldWithInput
    \/ WalkReturns
    \/ ReportParamsLeft
    \/ Respond

Spec == Init /\ [][Next]_vars

----------------------------------------------------------------------------
(* Properties of the response builder.                                     *)

Rendered == pc = "rendered"
Options  == IF Len(optionList) \in {1, 2} THEN optionList[1] ELSE NilOptions
Constructor == IF Len(optionList) = 2 THEN optionList[2] ELSE "nil"

\* A struct handed to CreateResponse that is rendered by the field walk
WalkedStruct ==
    /\ Rendered /\ data.kind = "struct" /\ data.caps = {}
    /\ ~HasPrefix(data.typeName, SqlNullablePrefix)
    /\ result.kind = "objx"

Fields == data.fields
Visible(i) == ~Fields[i].anonymous /\ Fields[i].name[1] \in 65..90

\* The external name of field i as section 4.1 of the spec gives it
ExternalName(i) ==
    LET f == Fields[i]
    IN CASE f.response # s_empty -> f.response
         [] f.response = s_empty /\ f.name # s_Id /\ f.db \notin {s_empty, s_dash} -> f.db
         [] OTHER -> ToLower(f.name)
Shown(i) == Visible(i) /\ ExternalName(i) # s_dash
\* The named fields that resolve to key, and the last declared of them
NamedFor(key) == {i \in 1..Len(Fields) : Shown(i) /\ ExternalName(i) = key}
LastNamedFor(key) == CHOOSE i \in NamedFor(key) : \A j \in NamedFor(key) : j <= i
NoEmbedded == \A i \in 1..Len(Fields) : ~Fields[i].anonymous

\* The response of embedded field i, rendered on its own with the same options
EmbeddedResponse(i) == CreateResponse(Fields[i].value, <<Options, Constructor>>)
EmbeddedFor(key) ==
    {i \in 1..Len(Fields) : Fields[i].anonymous /\ key \in DOMAIN EmbeddedResponse(i).m}
FirstEmbeddedFor(key) == CHOOSE i \in EmbeddedFor(key) : \A j \in EmbeddedFor(key) : i <= j

\* C1: in the response of a struct, a key that a named visible field resolves
\* to holds the value of that named field, wherever the embedded structs that
\* produce the same key are declared; a key that only embedded structs produce
\* holds the value of the first declared of them.
C1_EnclosingFieldWins ==
    WalkedStruct =>
        \A key \in DOMAIN result.m :
            IF NamedFor(key) # {}
            THEN Fields[LastNamedFor(key)].value.kind = "int"
                    => result.m[key] = Fields[LastNamedFor(key)].value
            ELSE /\ EmbeddedFor(key) # {}
                 /\ result.m[key] = EmbeddedResponse(FirstEmbeddedFor(key)).m[key]

\* An embedded struct declared before the named field, both producing "x",
\* and a second key that two embedded structs produce
C1_Witness ==
    /\ WalkedStruct
    /\ Len(Fields) = 2 /\ Fields[1].anonymous /\ ~Fields[2].anonymous
    /\ s_x \in DOMAIN EmbeddedResponse(1).m
    /\ ExternalName(2) = s_x
    /\ result.m[s_x] = IntV(2)

\* The children of a struct or mapping handed to CreateResponse: their keys,
\* values and, by the lookup of the spec (exact name, else "*", else none),
\* their options
ChildKeys ==
    IF data.kind = "struct" THEN {ExternalName(i) : i \in {j \in 1..Len(Fields) : Shown(j)}}
    ELSE DOMAIN data.m
ChildValue(key) ==
    IF data.kind = "struct" THEN Fields[LastNamedFor(key)].value ELSE data.m[key]
Narrowed(key) ==
    CASE Options.kind = "nil" -> NilOptions
      [] Options.kind # "nil" /\ key \in DOMAIN Options.m -> Options.m[key]
      [] Options.kind # "nil" /\ key \notin DOMAIN Options.m /\ s_star \in DOMAIN Options.m ->
            Options.m[s_star]
      [] OTHER -> NilOptions
\* The container is a struct walked field by field, or a mapping
Container ==
    /\ Rendered /\ data.caps = {}
    /\ \/ data.kind = "map"
       \/ data.kind = "struct" /\ NoEmbedded /\ ~HasPrefix(data.typeName, SqlNullablePrefix)

\* C2: under non-nil options that hold neither the child's name nor "*", a
\* struct field and a mapping key alike are rendered with no sub-options, and
\* the render completes.
C2_NoSubOptionsIsDefault ==
    ( /\ Container /\ Options.kind # "nil"
      /\ \A key \in ChildKeys : key \notin DOMAIN Options.m
      /\ s_star \notin DOMAIN Options.m )
    => /\ ~IsPanic(result)
       /\ DOMAIN result.m = ChildKeys
       /\ \A key \in ChildKeys :
            result.m[key] = createResponseValue(ChildValue(key), NilOptions, Constructor)

UsesCapability(r) == r.kind \in {"ResponseValue", "String", "Error"}
\* What createResponseValue is to give for a value under its options
ByPrecedence(value, options, r) ==
    IF Get(options, s_type) = StrOpt(s_full)
    THEN ~UsesCapability(r) /\ r = createResponse(value, TRUE, options, Constructor)
    ELSE CASE "ResponseValueCreator" \in value.caps ->
                r = [kind |-> "ResponseValue", of |-> value, options |-> options]
           [] "ResponseValueCreator" \notin value.caps /\ "Stringer" \in value.caps ->
                r = [kind |-> "String", of |-> value]
           [] value.caps \cap {"ResponseValueCreator", "Stringer"} = {} /\ "error" \in value.caps ->
                r = [kind |-> "Error", of |-> value]
           [] OTHER -> ~UsesCapability(r) /\ r = createResponse(value, TRUE, options, Constructor)

\* C6: a field value, a mapping value and a sequence element whose options say
\* type = "full" are rendered structurally, whatever capabilities they have;
\* otherwise the first of custom value producer, string conversion and error
\* message that applies is used, and structural recursion only when none does.
C6_FullSkipsCapabilities ==
    /\ (Container /\ ~IsPanic(result))
            => \A key \in ChildKeys : ByPrecedence(ChildValue(key), Narrowed(key), result.m[key])
    /\ (Rendered /\ data.kind = "slice" /\ ~IsPanic(result))
            => /\ Len(result.elems) = Len(data.elems)
               /\ \A i \in 1..Len(data.elems) :
                    ByPrecedence(data.elems[i], Options, result.elems[i])

\* A custom value producer rendered structurally because "*" says full
C6_Witness ==
    /\ Container /\ data.kind = "struct" /\ Len(Fields) = 1
    /\ Options = Under({s_star}, FullNode)
    /\ Fields[1].value.caps = {"ResponseValueCreator", "Stringer"}
    /\ result.kind = "objx" /\ result.m[s_x].kind = "objx"

\* The struct has the shape of a nullable wrapper: the prefix, a field named
\* by the rest of the type name, and a boolean field "Valid"
PayloadName == SubSeq(data.typeName, Len(SqlNullablePrefix) + 1, Len(data.typeName))
FieldsNamed(name) == {i \in 1..Len(Fields) : Fields[i].name = name}
NullableShape ==
    /\ Len(data.typeName) >= Len(SqlNullablePrefix)
    /\ SubSeq(data.typeName, 1, Len(SqlNullablePrefix)) = SqlNullablePrefix
    /\ FieldsNamed(PayloadName) # {}
    /\ \E i \in FieldsNamed(s_Valid) : Fields[i].value.kind = "bool"
ValidField == Fields[CHOOSE i \in FieldsNamed(s_Valid) : TRUE]
PayloadField == Fields[CHOOSE i \in FieldsNamed(PayloadName) : TRUE]

\* C7: a struct is unwrapped only when it has the nullable shape, to the
\* payload when Valid is true and to nil when it is false; every other struct,
\* one whose "Valid" is not a boolean included, is rendered as an ordinary
\* struct and the render completes.
C7_UnwrapOnlyNullableShape ==
    ( /\ Rendered /\ data.kind = "struct" /\ data.caps = {} /\ NoEmbedded
      /\ \A i \in 1..Len(Fields) : Fields[i].value.kind \in {"int", "bool", "string"}
      /\ \A key \in ChildKeys : Narrowed(key).kind \in {"nil", "msi"} )
    => IF NullableShape
       THEN result = IF ValidField.value.v = 1 THEN PayloadField.value ELSE Nil
       ELSE /\ result.kind = "objx"
            /\ DOMAIN result.m = ChildKeys

ShownFields == {i \in 1..Len(Fields) : Shown(i)}

\* C9 as stated: the response of a struct without embedded fields has as many
\* keys as the struct has visible fields that are not suppressed, also when two
\* of them resolve to the same name.
C9_OneKeyPerField ==
    (WalkedStruct /\ NoEmbedded) => Cardinality(DOMAIN result.m) = Cardinality(ShownFields)

\* C9 amended: it has as many keys as those fields have distinct external
\* names; fields that resolve to the same name share one key, which holds the
\* value of the last declared of them; invisible fields give no key.
C9_OneKeyPerName ==
    (WalkedStruct /\ NoEmbedded)
    => /\ Cardinality(DOMAIN result.m) = Cardinality({ExternalName(i) : i \in ShownFields})
       /\ \A i \in ShownFields : ExternalName(i) \in DOMAIN result.m
       /\ \A key \in DOMAIN result.m :
            /\ NamedFor(key) # {}
            /\ Fields[LastNamedFor(key)].value.kind = "int"
                    => result.m[key] = Fields[LastNamedFor(key)].value

\* Two visible fields resolving to the same name, rendered under one key
C9_Witness ==
    /\ WalkedStruct /\ NoEmbedded /\ Len(Fields) = 2
    /\ Shown(1) /\ Shown(2) /\ ExternalName(1) = ExternalName(2)
    /\ Cardinality(DOMAIN result.m) = 1
    /\ result.m[ExternalName(1)] = IntV(2)

\* C10: a rendered sequence is handed to the constructor exactly when a
\* constructor was supplied, the options are not nil and the sequence is a
\* sub-response; without a constructor a nested sequence under non-nil options
\* is returned as the plain rendered sequence, in the order of the input.
C10_ConstructorOnlyWhenSupplied ==
    (Container /\ Len(optionList) >= 1)
    => \A key \in ChildKeys :
        ( /\ ChildValue(key).kind = "slice"
          /\ \A k \in ChildKeys : Narrowed(k).kind \in {"nil", "msi"}
          /\ (data.kind = "map" /\ Options.kind # "nil")
                => \A k \in ChildKeys : k \in DOMAIN Options.m \/ s_star \in DOMAIN Options.m
          /\ \A i \in 1..Len(ChildValue(key).elems) : ChildValue(key).elems[i].kind = "int" )
        => /\ ~IsPanic(result)
           /\ LET plain == [kind |-> "slice", elems |-> ChildValue(key).elems]
              IN result.m[key] =
                    IF Len(optionList) = 2 /\ Narrowed(key).kind # "nil"
                    THEN [kind |-> "envelope", response |-> plain, original |-> ChildValue(key)]
                    ELSE plain

----------------------------------------------------------------------------
(* Properties of the input error collector.                                *)

\* The input names of the fields of a type, embedded types included, in the
\* order of the walk
RECURSIVE FlatNames(_)
FlatNames(type) ==
    IF type = <<>> THEN <<>>
    ELSE (IF Head(type).anonymous THEN FlatNames(Head(type).type.fields) ELSE <<Head(type).name>>)
            \o FlatNames(Tail(type))
TargetNames == {FlatNames(dataType)[i] : i \in 1..Len(FlatNames(dataType))}

\* Past the walk
Walked == pc \in {"walked", "reported", "responded"}
\* The walk is at a named field, which has no input, or has one
AtField     == pc = "walk" /\ top.i <= Len(top.type) /\ ~field.anonymous
AtNoInput   == AtField /\ field.name \notin DOMAIN params
AtInput     == AtField /\ field.name \in DOMAIN params
\* The walk moves to the next field of the same type
MovesOn == pc' = "walk" /\ frames' = [frames EXCEPT ![Len(frames)].i = top.i + 1]
\* The notifications change at most under name, which gets message
Records(name, message) ==
    /\ DOMAIN notifications' = DOMAIN notifications \cup {name}
    /\ notifications'[name] = message
    /\ \A k \in DOMAIN notifications \ {name} : notifications'[k] = notifications[k]

\* C3: the walk visits every field of the target type, the fields of embedded
\* types included; at a field without an input it records "No input for
\* required field" exactly when the field is not optional, and moves on.
C3_WalkVisitsEveryField ==
    /\ [](Walked => [i \in 1..Len(log) |-> log[i].name] = FlatNames(dataType))
    /\ [][AtNoInput =>
            /\ MovesOn
            /\ IF \E k \in 1..Len(field.args) : field.args[k] = "optional"
               THEN notifications' = notifications
               ELSE Records(field.name, NoInput)]_vars

\* A required field without input is recorded, and the optional field after it
\* is visited and not recorded
C3_Witness ==
    /\ Walked /\ Len(dataType) = 2 /\ Len(log) = 2
    /\ ~dataType[1].anonymous /\ ~dataType[2].anonymous
    /\ dataType[1].name = s_name /\ dataType[1].args = <<>>
    /\ dataType[2].name = s_age /\ dataType[2].args = <<"optional">>
    /\ log[1].check = "none" /\ log[2].check = "none"
    /\ DOMAIN notifications \cap {s_name, s_age} = {s_name}
    /\ notifications[s_name] = NoInput

\* The names whose entries the walk has consumed, and the keys of the
\* parameters as they were parsed
Consumed == {log[i].name : i \in {j \in 1..Len(log) : log[j].check # "none"}}
InputKeys == DOMAIN params \cup Consumed
NoTargetKeys == {k \in DOMAIN notifications : notifications[k] = NoTarget}

\* C4: an entry leaves the parameters exactly when a field matches its name;
\* nothing is reported as without target field before the walk has finished,
\* and after it exactly the input keys that no field has as input name are.
C4_UnmatchedReportedAfterWalk ==
    /\ [](pc \in {"input", "walk", "walked"} => NoTargetKeys = {})
    /\ [](pc \in {"reported", "responded"} =>
            /\ NoTargetKeys = InputKeys \ TargetNames
            /\ NoTargetKeys \cap Consumed = {})
    /\ [][AtInput => params' = [k \in DOMAIN params \ {field.name} |-> params[k]]]_vars
    /\ [][params' # params => AtInput]_vars

\* One input consumed by its field and one reported as without target field
C4_Witness ==
    /\ pc = "reported"
    /\ s_name \in Consumed /\ s_name \notin NoTargetKeys
    /\ s_Y \in NoTargetKeys
    /\ s_Y \in DOMAIN params

\* C5: a field with an input gets exactly one check: ValidateInput when the
\* field's type has it; Receive only when it has no ValidateInput; the
\* convertibility of the raw value's type only when it has neither, which
\* records "Input is of the wrong type and cannot be converted" on failure.
C5_CheckPrecedence ==
    [][AtInput =>
        LET caps == field.type.caps
            raw == params[field.name]
            ran == SubSeq(log', Len(log) + 1, Len(log'))
        IN /\ Len(ran) = 1 /\ ran[1].name = field.name
           /\ MovesOn
           /\ CASE "InputValidator" \in caps ->
                    /\ ran[1].check = "ValidateInput"
                    /\ IF Refuses(raw) THEN Records(field.name, "ValidateInput: refused")
                       ELSE notifications' = notifications
                [] "InputValidator" \notin caps /\ "RequestValueReceiver" \in caps ->
                    /\ ran[1].check = "Receive"
                    /\ IF Refuses(raw) THEN Records(field.name, "Receive: refused")
                       ELSE notifications' = notifications
                [] OTHER ->
                    /\ ran[1].check = "ConvertibleTo"
                    /\ IF ConvertibleTo(raw.kind, field.type.kind)
                       THEN notifications' = notifications
                       ELSE Records(field.name, WrongType)]_vars

\* A field with both capabilities, checked by ValidateInput alone
C5_Witness ==
    /\ pc = "walk" /\ Len(log) = 1
    /\ dataType[1].type.caps = {"InputValidator", "RequestValueReceiver"}
    /\ log[1].check = "ValidateInput"
    /\ notifications = [k \in {dataType[1].name} |-> "ValidateInput: refused"]

====
